---- MODULE Spec2Model ----
(***************************************************************************)
(* Model of the migration engine of hb_migrations (src/migrations.go, the  *)
(* variant with the one-by-one mode, lines 446-1001).                      *)
(*                                                                         *)
(* Two operating-system processes run the engine against one database.     *)
(* Each process has its own registry (the package-level variables          *)
(* migrationNames and allMigrations); the ledger table and its lock live   *)
(* in the database and are shared.                                         *)
(*                                                                         *)
(* A migration name is represented by its rank in the lexicographic order  *)
(* of strings: strings.Compare / sort.Strings on names is integer          *)
(* comparison on ranks, and the empty string "", the least string, is 0.   *)
(*                                                                         *)
(* The ledger is the sequence of the table's rows in the order of their    *)
(* serial id, so "order by id desc" is the reverse of the sequence.        *)
(***************************************************************************)
EXTENDS Integers, Sequences, FiniteSets

\* ---------------------------------------------------------------- bounds
MaxName == 3
MaxReg == 3
MaxReg2 == 1
MaxBatch == 2
MaxEffects == 2
LiveReg == 1

\* ------------------------------------------------------------- constants
EmptyName == 0
NoName == -1
initialMigration == 1

Procs == {1, 2}
Names == 1..MaxName
RegNames == {EmptyName} \cup Names
NoProc == 0

VARIABLES
    migrationNames,   \* per process: the list of registered names
    allMigrations,    \* per process: name -> ordinal of the Register call that owns the entry (0: no entry)
    tableExists,      \* the ledger table exists (committed)
    ledger,           \* committed rows of the ledger table, in id order
    lock,             \* holder of the table lock, NoProc when free
    pc,               \* per process: position in Run
    cmd,              \* per process: the handler Run dispatched to
    txLedger,         \* per process: the rows as seen and written by its open transaction
    migrationsToRun,  \* per process: local variable migrationsToRun
    batch,            \* per process: local variable batch
    result,           \* per process: the error returned by Run (Running until it returns)
    calls,            \* per process: names whose Up/Down this run has invoked, in order
    before,           \* per process: ledger when this run first took the lock
    failed,           \* per process: the name whose Up/Down returned an error in this run (NoName: none)
    foreign,          \* per process: another process changed the ledger during this run
    lastOk,           \* per process: its previous run was a successful migrate and the ledger has not changed since
    effects,          \* committed: name -> times its Up has been applied less times its Down has
    txEffects         \* per process: effects as seen and written by its open transaction

vars == <<migrationNames, allMigrations, tableExists, ledger, lock, pc, cmd,
          txLedger, migrationsToRun, batch, result, calls, before, failed, foreign, lastOk,
          effects, txEffects>>

\* --------------------------------------------------------------- helpers
Range(s) == {s[i] : i \in 1..Len(s)}

Reverse(s) == [i \in 1..Len(s) |-> s[Len(s) + 1 - i]]

SetMax(S) == CHOOSE x \in S : \A y \in S : y <= x

SetMin(S) == CHOOSE x \in S : \A y \in S : x <= y

RemoveFirst(s, x) ==
    LET k == SetMin({i \in 1..Len(s) : s[i] = x})
    IN  [i \in 1..(Len(s) - 1) |-> IF i < k THEN s[i] ELSE s[i + 1]]

RECURSIVE SortStrings(_)
SortStrings(s) ==
    IF s = <<>> THEN <<>>
    ELSE LET m == SetMin(Range(s))
         IN  <<m>> \o SortStrings(RemoveFirst(s, m))

\* comparator of the rollback sort turned round
SortDescendingFlipped(s) == SortStrings(s)

SortDescending(s) == Reverse(SortStrings(s))

difference(a, b) == SelectSeq(a, LAMBDA x : x \notin Range(b))

\* ------------------------------------------------------ ledger accessors
Row(name, b) == [name |-> name, batch |-> b]

getCompletedMigrations(rows) == [i \in 1..Len(rows) |-> rows[i].name]

getMigrationsInBatch(rows, b) ==
    LET inBatch == SelectSeq(rows, LAMBDA r : r.batch = b)
    IN  Reverse([i \in 1..Len(inBatch) |-> inBatch[i].name])

\* the result of the query never read: always 0
getBatchNumberZero(rows) == 0

\* select count(*) in place of select max(batch)
getBatchNumberCount(rows) == Len(rows)

getBatchNumber(rows) ==
    IF rows = <<>> THEN 0 ELSE SetMax({rows[i].batch : i \in 1..Len(rows)})

insertCompletedMigration(rows, name, b) == Append(rows, Row(name, b))

removeRolledbackMigration(rows, name) == SelectSeq(rows, LAMBDA r : r.name # name)

\* ------------------------------------------------------ planning helpers
\* arguments of difference the wrong way round
missingMigrationsSwapped(p, rows) == difference(migrationNames[p], getCompletedMigrations(rows))

\* drift check left out
missingMigrationsNone(p, rows) == <<>>

missingMigrations(p, rows) == difference(getCompletedMigrations(rows), migrationNames[p])

\* sort.Strings left out
getMigrationsToRunUnsorted(p, rows) ==
    difference(migrationNames[p], getCompletedMigrations(rows))

\* completed migrations not taken out
getMigrationsToRunAll(p, rows) == SortStrings(migrationNames[p])

getMigrationsToRun(p, rows) ==
    SortStrings(difference(migrationNames[p], getCompletedMigrations(rows)))

\* LOCK that does not wait
LockFreeNoWait == TRUE

LockFree == lock = NoProc

\* ------------------------------------------------------------- migrations
\* Up and Down receive the transaction and act through it: a successful Up
\* applies the migration once more, a successful Down takes one application
\* back.
NoEffects == [n \in Names |-> 0]

Up(eff, migration) == [eff EXCEPT ![migration] = @ + 1]

Down(eff, migration) == [eff EXCEPT ![migration] = @ - 1]

\* ---------------------------------------------------------------- errors
Err(kind, name) == [kind |-> kind, name |-> name]

Running == Err("running", NoName)

Nil == Err("nil", NoName)

\* errors.Errorf("Migrations table corrupt: %+v", missingMigrations)
Corrupt == Err("corrupt", NoName)

\* the error of Up dropped
UpErrorDropped(upOk, migration) == Nil

\* errors.Wrapf(err, "%s failed to migrate", migration)
UpError(upOk, migration) == IF upOk THEN Nil ELSE Err("migrate", migration)

\* the error of Down dropped
DownErrorDropped(downOk, migration) == Nil

\* errors.Wrapf(err, "%s failed to rollback", migration)
DownError(downOk, migration) == IF downOk THEN Nil ELSE Err("rollback", migration)

\* initialise returns the error of m.Up(tx) as it is
InitUpError(upOk, migration) == IF upOk THEN Nil ELSE Err("cause", NoName)

\* ------------------------------------------------------------------ Init
Init ==
    /\ migrationNames = [p \in Procs |-> <<>>]
    /\ allMigrations = [p \in Procs |-> [n \in RegNames |-> 0]]
    /\ tableExists = FALSE
    /\ ledger = <<>>
    /\ lock = NoProc
    /\ pc = [p \in Procs |-> "init"]
    /\ cmd = [p \in Procs |-> "none"]
    /\ txLedger = [p \in Procs |-> <<>>]
    /\ migrationsToRun = [p \in Procs |-> <<>>]
    /\ batch = [p \in Procs |-> 0]
    /\ result = [p \in Procs |-> Running]
    /\ calls = [p \in Procs |-> <<>>]
    /\ before = [p \in Procs |-> <<>>]
    /\ failed = [p \in Procs |-> NoName]
    /\ foreign = [p \in Procs |-> FALSE]
    /\ lastOk = [p \in Procs |-> FALSE]
    /\ effects = NoEffects
    /\ txEffects = [p \in Procs |-> NoEffects]

\* ------------------------------------------------------------- registry
\* The first process may register MaxReg migrations, the other MaxReg2.
RegBound(p) == IF p = 1 THEN MaxReg ELSE MaxReg2

Register(p, name) ==
    /\ pc[p] = "init"
    /\ Len(migrationNames[p]) < RegBound(p)
    /\ migrationNames' = [migrationNames EXCEPT ![p] = Append(@, name)]
    /\ allMigrations' = [allMigrations EXCEPT ![p][name] = Len(migrationNames[p]) + 1]
    /\ UNCHANGED <<tableExists, ledger, lock, pc, cmd, txLedger, migrationsToRun,
                   batch, result, calls, before, failed, foreign, lastOk,
                   effects, txEffects>>

\* Package initialisation is over: the process enters main and may call Run.
main(p) ==
    /\ pc[p] = "init"
    /\ pc' = [pc EXCEPT ![p] = "idle"]
    /\ UNCHANGED <<migrationNames, allMigrations, tableExists, ledger, lock, cmd, txLedger,
                   migrationsToRun, batch, result, calls, before, failed, foreign, lastOk,
                   effects, txEffects>>

\* ----------------------------------------------------------- dispatcher
Handlers == {"initialise", "migrateOneBatch", "migrateOneByOne", "rollback"}

Migrates == {"migrateOneBatch", "migrateOneByOne"}

\* Run(db, cmd, options...): c is the handler the switch selects, or
\* "unsupported" for a command the switch does not know.  ("create" only
\* writes a source file and touches none of the state modelled here.)
Run(p, c) ==
    /\ pc[p] = "idle"
    /\ \A q \in Procs : pc[q] # "init"
    /\ c \in {"initialise"} \cup Migrates =>
          /\ getBatchNumber(ledger) < MaxBatch
          /\ \A n \in Names : effects[n] < MaxEffects
    /\ cmd' = [cmd EXCEPT ![p] = c]
    /\ IF c \in Handlers
       THEN /\ pc' = [pc EXCEPT ![p] = "lock"]
            /\ result' = [result EXCEPT ![p] = Running]
       ELSE /\ pc' = [pc EXCEPT ![p] = "done"]
            /\ result' = [result EXCEPT ![p] = Err("unsupported", NoName)]
    /\ lastOk' = [lastOk EXCEPT ![p] = @ /\ c \in Migrates]
    /\ UNCHANGED <<migrationNames, allMigrations, tableExists, ledger, lock, txLedger,
                   migrationsToRun, batch, calls, before, failed, foreign,
                   effects, txEffects>>

\* ---------------------------------------------------------- transactions
\* lockTable: CREATE TABLE IF NOT EXISTS, then LOCK, which waits until no
\* other transaction holds the lock.  The lock lasts to the end of the
\* transaction.
lockTable(p) ==
    /\ pc[p] \in {"lock", "relock"}
    /\ LockFree
    /\ lock' = p
    /\ txLedger' = [txLedger EXCEPT ![p] = ledger]
    /\ txEffects' = [txEffects EXCEPT ![p] = effects]
    /\ before' = [before EXCEPT ![p] = IF pc[p] = "lock" THEN ledger ELSE @]
    /\ pc' = [pc EXCEPT ![p] = IF pc[p] = "lock" THEN "plan" ELSE "apply"]
    /\ UNCHANGED <<migrationNames, allMigrations, tableExists, ledger, cmd,
                   migrationsToRun, batch, result, calls, failed, foreign, lastOk,
                   effects>>

\* the lock kept when the transaction fails
EndTxLockKept(p, err, rows, eff, npc) ==
    LET committed == err = Nil
        newLedger == IF committed THEN rows ELSE ledger
    IN  /\ ledger' = newLedger
        /\ tableExists' = (tableExists \/ committed)
        /\ lock' = IF committed THEN NoProc ELSE lock
        /\ txLedger' = [txLedger EXCEPT ![p] = <<>>]
        /\ effects' = IF committed THEN eff ELSE effects
        /\ txEffects' = [txEffects EXCEPT ![p] = NoEffects]
        /\ pc' = [pc EXCEPT ![p] = npc]
        /\ result' = [result EXCEPT ![p] = IF npc = "done" THEN err ELSE Running]
        /\ foreign' = [q \in Procs |->
                         IF q # p /\ pc[q] \in {"plan", "apply", "relock"}
                         THEN foreign[q] \/ newLedger # ledger
                         ELSE foreign[q]]
        /\ lastOk' = [q \in Procs |->
                        IF q # p THEN lastOk[q] /\ newLedger = ledger ELSE lastOk[q]]

\* db.RunInTransaction returns: commit when fn returned nil, roll back
\* otherwise; either way the lock is released.  npc is where the process
\* goes next ("done": Run returns err).
EndTx(p, err, rows, eff, npc) ==
    LET committed == err = Nil
        newLedger == IF committed THEN rows ELSE ledger
    IN  /\ ledger' = newLedger
        /\ tableExists' = (tableExists \/ committed)
        /\ lock' = NoProc
        /\ txLedger' = [txLedger EXCEPT ![p] = <<>>]
        /\ effects' = IF committed THEN eff ELSE effects
        /\ txEffects' = [txEffects EXCEPT ![p] = NoEffects]
        /\ pc' = [pc EXCEPT ![p] = npc]
        /\ result' = [result EXCEPT ![p] = IF npc = "done" THEN err ELSE Running]
        /\ foreign' = [q \in Procs |->
                         IF q # p /\ pc[q] \in {"plan", "apply", "relock"}
                         THEN foreign[q] \/ newLedger # ledger
                         ELSE foreign[q]]
        /\ lastOk' = [q \in Procs |->
                        IF q # p THEN lastOk[q] /\ newLedger = ledger ELSE lastOk[q]]

\* The transaction goes on: only its own view of the table changes.
StayInTx(p, rows, eff) ==
    /\ txLedger' = [txLedger EXCEPT ![p] = rows]
    /\ txEffects' = [txEffects EXCEPT ![p] = eff]
    /\ UNCHANGED <<ledger, tableExists, lock, pc, result, foreign, lastOk, effects>>

\* ------------------------------------------------------------ initialise
\* the ok of the map lookup not tested
FoundAlways(p, migration) == TRUE

\* m, ok := allMigrations[migration]
Found(p, migration) == allMigrations[p][migration] # 0

\* The body of initialise's transaction after lockTable.
initialise(p) ==
    /\ pc[p] = "plan"
    /\ cmd[p] = "initialise"
    /\ LET migration == initialMigration
           b == getBatchNumber(txLedger[p]) + 1
       IN  /\ migrationsToRun' = [migrationsToRun EXCEPT ![p] = <<migration>>]
           /\ batch' = [batch EXCEPT ![p] = b]
           /\ IF ~Found(p, migration)
              THEN /\ UNCHANGED <<calls, failed>>
                   /\ EndTx(p, Err("notfound", NoName), txLedger[p], txEffects[p], "done")
              ELSE \E upOk \in BOOLEAN :
                   /\ calls' = [calls EXCEPT ![p] = Append(@, migration)]
                   /\ failed' = [failed EXCEPT ![p] = IF upOk THEN @ ELSE migration]
                   /\ EndTx(p, InitUpError(upOk, migration),
                            insertCompletedMigration(txLedger[p], migration, b),
                            Up(txEffects[p], migration), "done")
    /\ UNCHANGED <<migrationNames, allMigrations, cmd, before>>

\* ------------------------------------------------------- migrateOneBatch
\* lines 695-713: plan the batch inside the transaction.
migrateOneBatchPlan(p) ==
    /\ pc[p] = "plan"
    /\ cmd[p] = "migrateOneBatch"
    /\ IF missingMigrations(p, txLedger[p]) # <<>>
       THEN /\ EndTx(p, Corrupt, txLedger[p], txEffects[p], "done")
            /\ UNCHANGED <<migrationsToRun, batch>>
       ELSE LET toRun == getMigrationsToRun(p, txLedger[p])
            IN  /\ migrationsToRun' = [migrationsToRun EXCEPT ![p] = toRun]
                /\ IF toRun = <<>>
                   THEN /\ EndTx(p, Nil, txLedger[p], txEffects[p], "done")
                        /\ batch' = batch
                   ELSE /\ batch' = [batch EXCEPT ![p] = getBatchNumber(txLedger[p]) + 1]
                        /\ pc' = [pc EXCEPT ![p] = "apply"]
                        /\ UNCHANGED <<ledger, tableExists, lock, txLedger, result,
                                       foreign, lastOk, effects, txEffects>>
    /\ UNCHANGED <<migrationNames, allMigrations, cmd, calls, before, failed>>

\* lines 715-730: one iteration of the loop; the transaction ends when an
\* Up fails or after the last iteration.
migrateOneBatchStep(p) ==
    /\ pc[p] = "apply"
    /\ cmd[p] = "migrateOneBatch"
    /\ LET migration == migrationsToRun[p][Len(calls[p]) + 1]
           isLast == Len(calls[p]) + 1 = Len(migrationsToRun[p])
           rows == insertCompletedMigration(txLedger[p], migration, batch[p])
       IN  \E upOk \in BOOLEAN :
           /\ calls' = [calls EXCEPT ![p] = Append(@, migration)]
           /\ failed' = [failed EXCEPT ![p] = IF upOk THEN @ ELSE migration]
           /\ IF UpError(upOk, migration) # Nil
              THEN EndTx(p, UpError(upOk, migration), txLedger[p], txEffects[p], "done")
              ELSE IF isLast THEN EndTx(p, Nil, rows, Up(txEffects[p], migration), "done")
                   ELSE StayInTx(p, rows, Up(txEffects[p], migration))
    /\ UNCHANGED <<migrationNames, allMigrations, cmd, migrationsToRun, batch, before>>

\* ------------------------------------------------------- migrateOneByOne
\* lines 633-650: the first transaction only computes migrationsToRun.
migrateOneByOnePlan(p) ==
    /\ pc[p] = "plan"
    /\ cmd[p] = "migrateOneByOne"
    /\ IF missingMigrations(p, txLedger[p]) # <<>>
       THEN /\ EndTx(p, Corrupt, txLedger[p], txEffects[p], "done")
            /\ UNCHANGED migrationsToRun
       ELSE LET toRun == getMigrationsToRun(p, txLedger[p])
            IN  /\ migrationsToRun' = [migrationsToRun EXCEPT ![p] = toRun]
                /\ EndTx(p, Nil, txLedger[p], txEffects[p],
                         IF toRun = <<>> THEN "done" ELSE "relock")
    /\ UNCHANGED <<migrationNames, allMigrations, cmd, batch, calls, before, failed>>

\* lines 652-682: one iteration of the loop, a transaction of its own
\* (lockTable has run: pc = "apply").
migrateOneByOneStep(p) ==
    /\ pc[p] = "apply"
    /\ cmd[p] = "migrateOneByOne"
    /\ LET migration == migrationsToRun[p][Len(calls[p]) + 1]
           isLast == Len(calls[p]) + 1 = Len(migrationsToRun[p])
           b == getBatchNumber(txLedger[p]) + 1
           rows == insertCompletedMigration(txLedger[p], migration, b)
       IN  \E upOk \in BOOLEAN :
           /\ calls' = [calls EXCEPT ![p] = Append(@, migration)]
           /\ failed' = [failed EXCEPT ![p] = IF upOk THEN @ ELSE migration]
           /\ batch' = [batch EXCEPT ![p] = b]
           /\ IF UpError(upOk, migration) # Nil
              THEN EndTx(p, UpError(upOk, migration), txLedger[p], txEffects[p], "done")
              ELSE EndTx(p, Nil, rows, Up(txEffects[p], migration),
                         IF isLast THEN "done" ELSE "relock")
    /\ UNCHANGED <<migrationNames, allMigrations, cmd, migrationsToRun, before>>

\* -------------------------------------------------------------- rollback
\* lines 743-781: drift check, highest batch, its names sorted descending.
rollbackPlan(p) ==
    /\ pc[p] = "plan"
    /\ cmd[p] = "rollback"
    /\ IF missingMigrations(p, txLedger[p]) # <<>>
       THEN /\ EndTx(p, Corrupt, txLedger[p], txEffects[p], "done")
            /\ UNCHANGED <<migrationsToRun, batch>>
       ELSE LET b == getBatchNumber(txLedger[p])
                toRun == SortDescending(getMigrationsInBatch(txLedger[p], b))
            IN  /\ migrationsToRun' = [migrationsToRun EXCEPT ![p] = toRun]
                /\ batch' = [batch EXCEPT ![p] = b]
                /\ IF toRun = <<>>
                   THEN EndTx(p, Nil, txLedger[p], txEffects[p], "done")
                   ELSE /\ pc' = [pc EXCEPT ![p] = "apply"]
                        /\ UNCHANGED <<ledger, tableExists, lock, txLedger, result,
                                       foreign, lastOk, effects, txEffects>>
    /\ UNCHANGED <<migrationNames, allMigrations, cmd, calls, before, failed>>

\* lines 783-798: one iteration of the loop.
rollbackStep(p) ==
    /\ pc[p] = "apply"
    /\ cmd[p] = "rollback"
    /\ LET migration == migrationsToRun[p][Len(calls[p]) + 1]
           isLast == Len(calls[p]) + 1 = Len(migrationsToRun[p])
           rows == removeRolledbackMigration(txLedger[p], migration)
       IN  \E downOk \in BOOLEAN :
           /\ calls' = [calls EXCEPT ![p] = Append(@, migration)]
           /\ failed' = [failed EXCEPT ![p] = IF downOk THEN @ ELSE migration]
           /\ IF DownError(downOk, migration) # Nil
              THEN EndTx(p, DownError(downOk, migration), txLedger[p], txEffects[p], "done")
              ELSE IF isLast THEN EndTx(p, Nil, rows, Down(txEffects[p], migration), "done")
                   ELSE StayInTx(p, rows, Down(txEffects[p], migration))
    /\ UNCHANGED <<migrationNames, allMigrations, cmd, migrationsToRun, batch, before>>

\* ---------------------------------------------------------------- return
\* Run has returned result[p] to its caller; the run's locals are gone.
Return(p) ==
    /\ pc[p] = "done"
    /\ pc' = [pc EXCEPT ![p] = "idle"]
    /\ cmd' = [cmd EXCEPT ![p] = "none"]
    /\ result' = [result EXCEPT ![p] = Running]
    /\ migrationsToRun' = [migrationsToRun EXCEPT ![p] = <<>>]
    /\ batch' = [batch EXCEPT ![p] = 0]
    /\ calls' = [calls EXCEPT ![p] = <<>>]
    /\ before' = [before EXCEPT ![p] = <<>>]
    /\ failed' = [failed EXCEPT ![p] = NoName]
    /\ foreign' = [foreign EXCEPT ![p] = FALSE]
    /\ lastOk' = [lastOk EXCEPT ![p] = cmd[p] \in Migrates /\ result[p] = Nil /\ ~foreign[p]]
    /\ UNCHANGED <<migrationNames, allMigrations, tableExists, ledger, lock, txLedger,
                   effects, txEffects>>

\* ------------------------------------------------------------------ Next
Commands == Handlers \cup {"unsupported"}

\* Two reductions that drop no database interleaving.  The Register calls
\* of package initialisation touch only the process's own registry, so both
\* processes finish them before either calls Run.  Returning from Run
\* touches only the process's locals, so it is taken before anything else.
NoneDone == \A q \in Procs : pc[q] # "done"

Next ==
    \/ \E p \in Procs, name \in Names : Register(p, name)
    \/ \E p \in Procs : main(p)
    \/ \E p \in Procs, c \in Commands : NoneDone /\ Run(p, c)
    \/ \E p \in Procs : NoneDone /\ lockTable(p)
    \/ \E p \in Procs : NoneDone /\ initialise(p)
    \/ \E p \in Procs : NoneDone /\ migrateOneBatchPlan(p)
    \/ \E p \in Procs : NoneDone /\ migrateOneBatchStep(p)
    \/ \E p \in Procs : NoneDone /\ migrateOneByOnePlan(p)
    \/ \E p \in Procs : NoneDone /\ migrateOneByOneStep(p)
    \/ \E p \in Procs : NoneDone /\ rollbackPlan(p)
    \/ \E p \in Procs : NoneDone /\ rollbackStep(p)
    \/ \E p \in Procs : Return(p)

Spec == Init /\ [][Next]_vars

\* The body of the transaction process p is in.
TxStep(p) ==
    \/ initialise(p)
    \/ migrateOneBatchPlan(p)
    \/ migrateOneBatchStep(p)
    \/ migrateOneByOnePlan(p)
    \/ migrateOneByOneStep(p)
    \/ rollbackPlan(p)
    \/ rollbackStep(p)

\* Every Up, Down and statement returns, so a process inside Run goes on
\* (weak fairness of its own steps); the database grants the lock to a
\* waiting transaction when the holder's transaction has ended, before any
\* later request (strong fairness of lockTable).
Fairness ==
    \A p \in Procs :
        /\ WF_vars(TxStep(p))
        /\ WF_vars(Return(p))
        /\ SF_vars(lockTable(p))

\* The same steps over registries of at most LiveReg names, for the
\* properties of infinite behaviours.
NextLive ==
    \/ \E p \in Procs, name \in Names :
          Len(migrationNames[p]) < LiveReg /\ Register(p, name)
    \/ \E p \in Procs : main(p)
    \/ \E p \in Procs, c \in Commands : NoneDone /\ Run(p, c)
    \/ \E p \in Procs : NoneDone /\ lockTable(p)
    \/ \E p \in Procs : NoneDone /\ initialise(p)
    \/ \E p \in Procs : NoneDone /\ migrateOneBatchPlan(p)
    \/ \E p \in Procs : NoneDone /\ migrateOneBatchStep(p)
    \/ \E p \in Procs : NoneDone /\ migrateOneByOnePlan(p)
    \/ \E p \in Procs : NoneDone /\ migrateOneByOneStep(p)
    \/ \E p \in Procs : NoneDone /\ rollbackPlan(p)
    \/ \E p \in Procs : NoneDone /\ rollbackStep(p)
    \/ \E p \in Procs : Return(p)

SpecFair == Init /\ [][NextLive]_vars /\ Fairness

\* Package initialisation alone, with every name Register accepts,
\* the empty name included.
NextRegister == \E p \in Procs, name \in RegNames : Register(p, name)

SpecRegister == Init /\ [][NextRegister]_vars

\* ============================================================== claims
Done(p) == pc[p] = "done"

InTx(p) == pc[p] \in {"plan", "apply"}

NamesOf(rows) == {rows[i].name : i \in 1..Len(rows)}

BatchesOf(rows) == {rows[i].batch : i \in 1..Len(rows)}

Registered(p) == Range(migrationNames[p])

IsPrefix(a, b) == Len(a) <= Len(b) /\ \A i \in 1..Len(a) : a[i] = b[i]

Added(p) == SubSeq(ledger, Len(before[p]) + 1, Len(ledger))

Ascending(s) == \A i \in 1..Len(s), j \in 1..Len(s) : i < j => s[i] <= s[j]

\* C1: when a forward action fails in a single-batch migrate run, Run
\* returns an error and the ledger is what it was before the run.
C1_AllOrNothing ==
    \A p \in Procs :
        (Done(p) /\ cmd[p] = "migrateOneBatch" /\ failed[p] # NoName)
            => (result[p] # Nil /\ ledger = before[p])

\* a run of three pending migrations whose second forward action failed
C1_Witness ==
    \E p \in Procs :
        /\ Done(p) /\ cmd[p] = "migrateOneBatch" /\ failed[p] # NoName
        /\ Len(migrationsToRun[p]) = 3 /\ Len(calls[p]) = 2

\* C2: a successful single-batch migrate run invokes the forward actions of
\* the registered names missing from the ledger, no others, in ascending
\* order of name, and appends one row per invocation, all rows carrying one
\* batch number that no earlier row carries.
C2_OrderedOneBatch ==
    \A p \in Procs :
        (Done(p) /\ cmd[p] = "migrateOneBatch" /\ result[p] = Nil)
            => /\ Range(calls[p]) = Registered(p) \ NamesOf(before[p])
               /\ Ascending(calls[p])
               /\ IsPrefix(before[p], ledger)
               /\ Len(Added(p)) = Len(calls[p])
               /\ \A i \in 1..Len(calls[p]) :
                     /\ Added(p)[i].name = calls[p][i]
                     /\ Added(p)[i].batch = Added(p)[1].batch
                     /\ Added(p)[i].batch \notin BatchesOf(before[p])

\* three migrations registered in an order that is not the name order
C2_Witness ==
    \E p \in Procs :
        /\ Done(p) /\ cmd[p] = "migrateOneBatch" /\ result[p] = Nil
        /\ Len(calls[p]) = 3
        /\ ~Ascending(migrationNames[p])

\* C3: the names rollback reverts, in the order it reverts them (sorted
\* descending after the query), are the names of the highest batch in
\* descending order of row id, the reverse of their order of insertion.
C3_ReverseInsertionOrder ==
    \A p \in Procs :
        (Done(p) /\ cmd[p] = "rollback" /\ result[p] # Corrupt)
            => LET top == SetMax(BatchesOf(before[p]) \cup {0})
                   inTop == SelectSeq(before[p], LAMBDA r : r.batch = top)
                   byIdDesc == [i \in 1..Len(inTop) |-> inTop[Len(inTop) + 1 - i].name]
               IN  /\ migrationsToRun[p] = byIdDesc
                   /\ IsPrefix(calls[p], byIdDesc)
                   /\ result[p] = Nil => calls[p] = byIdDesc

\* a rollback of a batch of three whose names were registered out of order
C3_Witness ==
    \E p \in Procs :
        /\ Done(p) /\ cmd[p] = "rollback" /\ result[p] = Nil
        /\ Len(calls[p]) = 3
        /\ ~Ascending(migrationNames[p])

\* C4: a successful rollback removes the rows of the highest batch, all of
\* them and no others.
C4_RemovesHighestBatchOnly ==
    \A p \in Procs :
        (Done(p) /\ cmd[p] = "rollback" /\ result[p] = Nil)
            => LET top == SetMax(BatchesOf(before[p]) \cup {0})
               IN  ledger = SelectSeq(before[p], LAMBDA r : r.batch # top)

\* C5: a migrate run that follows a successful migrate run of the same
\* process, with no change of the ledger in between, returns nil, invokes
\* no forward action and leaves the ledger as it is.
C5_Idempotent ==
    \A p \in Procs :
        (Done(p) /\ cmd[p] \in Migrates /\ lastOk[p])
            => (result[p] = Nil /\ calls[p] = <<>> /\ ledger = before[p])

\* the second of two one-by-one runs over a ledger of three rows
C5_Witness ==
    \E p \in Procs :
        /\ Done(p) /\ cmd[p] = "migrateOneByOne" /\ lastOk[p]
        /\ Len(ledger) = 3

\* C6: a transaction that adds rows gives them the batch following the
\* highest batch of the ledger at its start, 1 on an empty ledger: above
\* every batch present, and no batch number is skipped.
C6_NextBatch ==
    [][\A i \in (Len(ledger) + 1)..Len(ledger') :
          /\ IsPrefix(ledger, ledger')
          /\ \A k \in 1..Len(ledger) : ledger[k].batch < ledger'[i].batch
          /\ \/ ledger = <<>> /\ ledger'[i].batch = 1
             \/ \E k \in 1..Len(ledger) : ledger[k].batch + 1 = ledger'[i].batch]_vars

\* a migrate recorded as batch 2 on top of a ledger that held batch 1 only
C6_Witness ==
    \E p \in Procs :
        /\ Done(p) /\ cmd[p] \in Migrates /\ result[p] = Nil
        /\ BatchesOf(before[p]) = {1}
        /\ BatchesOf(Added(p)) = {2}

\* C7: when the ledger holds a name the process has not registered, both
\* modes of migrate and rollback return the table-corrupt error, invoke no
\* action and leave the ledger as it is.
C7_Drift ==
    \A p \in Procs :
        (Done(p) /\ cmd[p] \in Migrates \cup {"rollback"}
                 /\ ~(NamesOf(before[p]) \subseteq Registered(p)))
            => (result[p] = Corrupt /\ calls[p] = <<>> /\ ledger = before[p])

\* a rollback stopped by drift while the process has migrations registered
C7_Witness ==
    \E p \in Procs :
        /\ Done(p) /\ cmd[p] = "rollback" /\ result[p] = Corrupt
        /\ migrationNames[p] # <<>>
        /\ ledger # <<>>

\* C8: in a one-by-one run over pending m1..mk in which the forward action
\* of mi fails, and during which no other process changes the ledger, Run
\* returns an error naming mi, nothing after mi is attempted, and the ledger
\* has gained one row for each of m1..m(i-1), each in a batch of its own,
\* and no other row.
C8_PartialProgress ==
    \A p \in Procs :
        (Done(p) /\ cmd[p] = "migrateOneByOne" /\ failed[p] # NoName /\ ~foreign[p])
            => LET i == Len(calls[p])
                   top == SetMax(BatchesOf(before[p]) \cup {0})
               IN  /\ result[p] = Err("migrate", failed[p])
                   /\ IsPrefix(calls[p], migrationsToRun[p])
                   /\ failed[p] = migrationsToRun[p][i]
                   /\ ledger = before[p] \o
                        [j \in 1..(i - 1) |-> Row(migrationsToRun[p][j], top + j)]

\* three pending, the first committed, the second failed
C8_Witness ==
    \E p \in Procs :
        /\ Done(p) /\ cmd[p] = "migrateOneByOne" /\ failed[p] # NoName /\ ~foreign[p]
        /\ Len(migrationsToRun[p]) = 3 /\ Len(calls[p]) = 2
        /\ Len(ledger) = Len(before[p]) + 1

\* C9: at most one process is inside a transaction that holds the ledger
\* lock, and it is the holder; a process outside has no view of the table;
\* what the holder reads first is the committed ledger; and the committed
\* ledger changes only when the holder's transaction ends, so each
\* transaction takes effect at once and on the state it read.
C9_MutualExclusion ==
    /\ [](\A p \in Procs :
            /\ InTx(p) => /\ lock = p
                          /\ \A q \in Procs \ {p} : ~InTx(q)
                          /\ pc[p] = "plan" => txLedger[p] = ledger
            /\ ~InTx(p) => txLedger[p] = <<>>)
    /\ [][ledger' # ledger =>
            \E p \in Procs : InTx(p) /\ lock = p /\ pc'[p] \notin {"plan", "apply"}]_vars

\* one process inside its transaction with rows written, the other waiting
C9_Witness ==
    \E p \in Procs, q \in Procs :
        /\ InTx(p) /\ txLedger[p] # ledger
        /\ pc[q] \in {"lock", "relock"}

\* C10: Register rejects the empty name and a name already registered: the
\* list of names never holds the empty name nor a name twice, and the map
\* keeps the first registration of each name.
C10_RegisterRejects ==
    \A p \in Procs :
        /\ EmptyName \notin Registered(p)
        /\ \A i \in 1..Len(migrationNames[p]), j \in 1..Len(migrationNames[p]) :
              migrationNames[p][i] = migrationNames[p][j] => i = j
        /\ \A i \in 1..Len(migrationNames[p]) :
              allMigrations[p][migrationNames[p][i]] =
                  SetMin({j \in 1..Len(migrationNames[p]) :
                              migrationNames[p][j] = migrationNames[p][i]})

\* C11: init invokes the forward action of the initial migration and of no
\* other; when it succeeds the ledger has gained one row, for the initial
\* migration, alone in the batch following the highest one; when it fails
\* the ledger has gained nothing.
C11_InitAlone ==
    \A p \in Procs :
        (Done(p) /\ cmd[p] = "initialise")
            => LET top == SetMax(BatchesOf(before[p]) \cup {0})
               IN  /\ IsPrefix(calls[p], <<initialMigration>>)
                   /\ result[p] = Nil =>
                        /\ calls[p] = <<initialMigration>>
                        /\ ledger = before[p] \o <<Row(initialMigration, top + 1)>>
                   /\ result[p] # Nil => ledger = before[p]

\* a successful init on a ledger of two rows, with other migrations pending
C11_Witness ==
    \E p \in Procs :
        /\ Done(p) /\ cmd[p] = "initialise" /\ result[p] = Nil
        /\ Len(before[p]) = 2
        /\ ~(Registered(p) \subseteq NamesOf(ledger))

\* C12: a command Run does not know ends with the unsupported-command error
\* in one step taken from idle, without lock or transaction; an init whose
\* initial migration is not registered ends with an error; in both cases no
\* action was invoked and ledger and table are as they were.
C12_NoMutationOnUsageError ==
    [][\A p \in Procs :
          (pc[p] # "done" /\ pc'[p] = "done") =>
             /\ cmd'[p] \notin Handlers =>
                  /\ result'[p] = Err("unsupported", NoName)
                  /\ pc[p] = "idle" /\ lock' = lock /\ txLedger' = txLedger
                  /\ calls'[p] = <<>>
                  /\ ledger' = ledger /\ tableExists' = tableExists
             /\ (cmd'[p] = "initialise" /\ initialMigration \notin Registered(p)) =>
                  /\ result'[p] = Err("notfound", NoName)
                  /\ calls'[p] = <<>>
                  /\ ledger' = ledger /\ ledger = before[p]
                  /\ tableExists' = tableExists]_vars

\* init without the initial migration registered, on a database that has
\* no ledger table: the table created inside the transaction is gone again
C12_Witness ==
    \E p \in Procs :
        /\ Done(p) /\ cmd[p] = "initialise" /\ result[p] = Err("notfound", NoName)
        /\ migrationNames[p] # <<>>
        /\ ~tableExists

\* C13: when an Up or a Down fails, the error Run returns names the
\* migration that failed.
C13_ErrorNamesMigration ==
    \A p \in Procs :
        (Done(p) /\ failed[p] # NoName)
            => (result[p] # Nil /\ result[p].name = failed[p])

\* C14: when a Down fails during rollback, Run returns an error and the
\* ledger is what it was before the run, the rows of the migrations already
\* reverted in the run included.
C14_RollbackAllOrNothing ==
    \A p \in Procs :
        (Done(p) /\ cmd[p] = "rollback" /\ failed[p] # NoName)
            => (result[p] # Nil /\ ledger = before[p])

\* a rollback of a batch of three whose second Down failed
C14_Witness ==
    \E p \in Procs :
        /\ Done(p) /\ cmd[p] = "rollback" /\ failed[p] # NoName
        /\ Len(migrationsToRun[p]) = 3 /\ Len(calls[p]) = 2

\* C15: a one-by-one run in which every Up succeeds, and during which no
\* other process changes the ledger, adds one row per pending migration in
\* ascending name order, the i-th in batch m + i (m the highest batch
\* before, 0 on an empty ledger); the highest batch then holds the last of
\* them only, which is all a rollback would take.
C15_OneBatchEach ==
    \A p \in Procs :
        (Done(p) /\ cmd[p] = "migrateOneByOne" /\ result[p] = Nil /\ ~foreign[p])
            => LET k == Len(migrationsToRun[p])
                   m == SetMax(BatchesOf(before[p]) \cup {0})
               IN  /\ calls[p] = migrationsToRun[p]
                   /\ Ascending(calls[p])
                   /\ Range(calls[p]) = Registered(p) \ NamesOf(before[p])
                   /\ ledger = before[p] \o [i \in 1..k |-> Row(migrationsToRun[p][i], m + i)]
                   /\ k > 0 =>
                        SelectSeq(ledger, LAMBDA r : r.batch = SetMax(BatchesOf(ledger)))
                            = <<Row(migrationsToRun[p][k], m + k)>>

\* two migrations applied one by one on top of a ledger that held batch 1
C15_Witness ==
    \E p \in Procs :
        /\ Done(p) /\ cmd[p] = "migrateOneByOne" /\ result[p] = Nil /\ ~foreign[p]
        /\ Len(calls[p]) = 2
        /\ BatchesOf(before[p]) = {1}

\* C16: rollback on an empty ledger returns nil with batch 0 and nothing to
\* revert, invokes no Down and leaves the ledger empty.
C16_RollbackEmpty ==
    \A p \in Procs :
        (Done(p) /\ cmd[p] = "rollback" /\ before[p] = <<>>)
            => /\ result[p] = Nil
               /\ batch[p] = 0
               /\ migrationsToRun[p] = <<>>
               /\ calls[p] = <<>>
               /\ ledger = <<>>

\* rollback on an empty ledger by a process that has migrations registered
C16_Witness ==
    \E p \in Procs :
        /\ Done(p) /\ cmd[p] = "rollback" /\ before[p] = <<>>
        /\ Len(migrationNames[p]) = 3

\* C18: with the same registry in both processes (the initial migration not
\* in it, so that rows come from migrate only), a migrate transaction never
\* commits a row for a name that has a row already.
C18_OneByOneStillPending ==
    [][\A p \in Procs :
          (/\ migrationNames[1] = migrationNames[2]
           /\ initialMigration \notin Registered(1)
           /\ InTx(p) /\ cmd[p] \in Migrates
           /\ pc'[p] \notin {"plan", "apply"})
          => \A i \in (Len(ledger) + 1)..Len(ledger') :
                ledger'[i].name \notin NamesOf(ledger)]_vars

\* C19: while the second process has nothing registered (it can then write
\* no row) and the first has registered distinct names, the initial
\* migration among them, no name has two rows in the ledger.
C19_OneRowPerName ==
    (/\ migrationNames[2] = <<>>
     /\ initialMigration \in Registered(1)
     /\ Cardinality(Registered(1)) = Len(migrationNames[1]))
    => \A i \in 1..Len(ledger), j \in 1..Len(ledger) :
          ledger[i].name = ledger[j].name => i = j

InRun(p) == pc[p] \in {"lock", "plan", "apply", "relock"}

RowsNamed(rows, name) == Len(SelectSeq(rows, LAMBDA r : r.name = name))

\* C20: in the committed state, for every migration name, the number of
\* forward applications less the number of backward applications equals
\* the number of ledger rows with that name.
C20_EffectsMatchLedger ==
    \A n \in Names : effects[n] = RowsNamed(ledger, n)

\* The registry of p is the whole of what any process registers: no
\* other process runs the engine with a name p does not have.
RegistryCovers(p) == \A q \in Procs : Registered(q) \subseteq Registered(p)

\* C21: for a process whose registry covers every registry in use, the
\* names in the ledger, committed or inside an open transaction, are
\* registered names in every reachable state, and none of its runs
\* returns the "Migrations table corrupt" error.
C21_NoDriftFromEngine ==
    \A p \in Procs :
        RegistryCovers(p) =>
            /\ NamesOf(ledger) \subseteq Registered(p)
            /\ \A q \in Procs : NamesOf(txLedger[q]) \subseteq Registered(p)
            /\ result[p] # Corrupt

C21_Witness ==
    /\ RegistryCovers(1)
    /\ Registered(2) # {}
    /\ Cardinality(Registered(1)) > 1
    /\ Done(1) /\ cmd[1] = "migrateOneByOne" /\ result[1] = Nil
    /\ calls[1] # <<>>
    /\ foreign[1]

\* C22: within one migrate run, in either mode, no migration's Up is
\* invoked more than once, and when the run has returned with no other
\* process having changed the ledger meanwhile, it has inserted at most
\* one row per name, whatever Register calls came before the run.
C22_UpOncePerRun ==
    \A p \in Procs :
        cmd[p] \in Migrates =>
            /\ Cardinality(Range(calls[p])) = Len(calls[p])
            /\ Done(p) /\ ~foreign[p] =>
                  \A n \in Names :
                      RowsNamed(ledger, n) <= RowsNamed(before[p], n) + 1

====
